---- MODULE Spec2Model ----
(***************************************************************************)
(* Model of the SmartLoad load optimizer (app/optimizer.py): the pairwise  *)
(* compatibility masks, the payout ordering and suffix bound table, the    *)
(* recursive branch-and-bound search (one step per entry to search), and   *)
(* the result assembled by optimize / optimize_load.                       *)
(*                                                                         *)
(* Python lists are sequences here; a Python index i is position i + 1.    *)
(* Bitmasks are naturals, handled with div/mod as the code's << & | do.    *)
(* Strings are sequences of one-character strings, dates are day numbers.  *)
(***************************************************************************)
EXTENDS Integers, Sequences, FiniteSets, TLC

VARIABLES truck, orders, pc, compat_masks, order_by_value, suffix_payout,
          stack, best_payout, best_selection, last, result, prev_payout, added

vars == <<truck, orders, pc, compat_masks, order_by_value, suffix_payout,
          stack, best_payout, best_selection, last, result, prev_payout, added>>

\* The tables optimize computes once, before the search
tables == <<compat_masks, order_by_value, suffix_payout>>

----------------------------------------------------------------------------
(* Bounds of the model *)

\* Longest order list handed to the optimizer.
MaxOrders == 3

\* Largest truck capacity (weight and volume) drawn for the input.
MaxCapacity == 3

----------------------------------------------------------------------------
(* Helpers for Python values *)

At(s, i) == s[i + 1]

Pow2(i) == 2 ^ i

\* m & (1 << i) is non-zero
Bit(m, i) == (m \div Pow2(i)) % 2 = 1

\* m | (1 << i)
SetBit(m, i) == IF Bit(m, i) THEN m ELSE m + Pow2(i)

RECURSIVE BitAnd(_, _)
BitAnd(a, b) ==
    IF a = 0 \/ b = 0 THEN 0
    ELSE 2 * BitAnd(a \div 2, b \div 2) + (IF a % 2 = 1 /\ b % 2 = 1 THEN 1 ELSE 0)

Max2(a, b) == IF a >= b THEN a ELSE b

Min2(a, b) == IF a <= b THEN a ELSE b

\* str.lower() on the characters the inputs use
LowerChar(c) ==
    CASE c = "A" -> "a"
      [] c = "L" -> "l"
      [] c = "N" -> "n"
      [] c = "T" -> "t"
      [] c = "X" -> "x"
      [] c = "Y" -> "y"
      [] OTHER -> c

Lower(s) == [k \in 1 .. Len(s) |-> LowerChar(s[k])]

IsSpace(c) == c = " "

RECURSIVE LStrip(_)
LStrip(s) == IF s # <<>> /\ IsSpace(Head(s)) THEN LStrip(Tail(s)) ELSE s

RECURSIVE RStrip(_)
RStrip(s) ==
    IF s # <<>> /\ IsSpace(s[Len(s)]) THEN RStrip(SubSeq(s, 1, Len(s) - 1)) ELSE s

\* str.strip()
Strip(s) == RStrip(LStrip(s))

----------------------------------------------------------------------------
(* Compatibility evaluator *)

_check_time_windows(order1, order2) ==
    LET latest_pickup == Max2(order1.pickup_date, order2.pickup_date)
        earliest_delivery == Min2(order1.delivery_date, order2.delivery_date)
    IN  latest_pickup <= earliest_delivery

_check_same_route(order1, order2) ==
    LET origin_match == Lower(Strip(order1.origin)) = Lower(Strip(order2.origin))
        dest_match == Lower(Strip(order1.destination)) = Lower(Strip(order2.destination))
    IN  origin_match /\ dest_match

_check_hazmat_ok(order1, order2) == order1.is_hazmat = order2.is_hazmat

can_combine(order1, order2) ==
    /\ _check_same_route(order1, order2)
    /\ _check_time_windows(order1, order2)
    /\ _check_hazmat_ok(order1, order2)

----------------------------------------------------------------------------
(* Compatibility graph builder *)

RECURSIVE MaskRow(_, _, _, _)
\* Row i of the masks after the loops have met every pair that involves i:
\* bit i from the self line, bit j from the pair (min(i,j), max(i,j)).
MaskRow(os, i, j, acc) ==
    IF j >= Len(os) THEN acc
    ELSE LET lo == Min2(i, j)
             hi == Max2(i, j)
             hit == (j = i) \/ can_combine(At(os, lo), At(os, hi))
         IN  MaskRow(os, i, j + 1, IF hit THEN SetBit(acc, j) ELSE acc)

_build_compatibility_masks(os) == [k \in 1 .. Len(os) |-> MaskRow(os, k - 1, 0, 0)]

----------------------------------------------------------------------------
(* Search order heuristic and bound table *)

Payouts(os) == [k \in 1 .. Len(os) |-> os[k].payout_cents]

Weights(os) == [k \in 1 .. Len(os) |-> os[k].weight_lbs]

Volumes(os) == [k \in 1 .. Len(os) |-> os[k].volume_cuft]

RECURSIVE InsertDesc(_, _, _)
\* Stable insertion of index i into a list sorted by descending payout:
\* i goes after every element whose payout is >= its own.
InsertDesc(sorted, i, pay) ==
    IF sorted = <<>> THEN <<i>>
    ELSE IF At(pay, Head(sorted)) >= At(pay, i)
         THEN <<Head(sorted)>> \o InsertDesc(Tail(sorted), i, pay)
         ELSE <<i>> \o sorted

RECURSIVE SortDesc(_, _, _)
SortDesc(n, i, pay) ==
    IF i = 0 THEN <<>> ELSE InsertDesc(SortDesc(n, i - 1, pay), i - 1, pay)

\* Variant: the descending list turned round, so ascending by payout with
\* equal payouts in reverse input order
SortByValue_Ascending(pay) ==
    LET desc == SortDesc(Len(pay), Len(pay), pay)
    IN  [k \in 1 .. Len(desc) |-> desc[Len(desc) + 1 - k]]

\* line 99: sorted(range(n), key=lambda i: payouts[i], reverse=True)
SortByValue(pay) == SortDesc(Len(pay), Len(pay), pay)

RECURSIVE SuffixFrom(_, _, _)
\* line 105: suffix_payout[i] = suffix_payout[i + 1] + payouts[order_by_value[i]]
SuffixFrom(pay, obv, i) ==
    IF i >= Len(pay) THEN 0
    ELSE SuffixFrom(pay, obv, i + 1) + At(pay, At(obv, i))

\* Variant: each entry leaves out the payout at its own position
SuffixSums_Shifted(pay, obv) ==
    [k \in 1 .. Len(pay) + 1 |-> SuffixFrom(pay, obv, Min2(k, Len(pay)))]

\* lines 103-105: the table of n + 1 suffix sums
SuffixSums(pay, obv) == [k \in 1 .. Len(pay) + 1 |-> SuffixFrom(pay, obv, k - 1)]

----------------------------------------------------------------------------
(* Branch-and-bound engine: the body of search, on one frame f *)

\* Variant: the incumbent updated only at depth N
IncumbentImproves_AtLeaf(f, best) == f.curr_payout > best /\ f.idx >= Len(orders)

\* line 116: found a better solution?
IncumbentImproves(f, best) == f.curr_payout > best

\* Variant: the chosen search positions kept, not mapped through order_by_value
SelectionOf_Positions(f) ==
    LET Chosen(i) == Bit(f.selected_mask, i)
    IN  SelectSeq([k \in 1 .. f.idx |-> k - 1], Chosen)

\* lines 118-119: [order_by_value[i] for i in range(idx) if selected_mask & (1 << i)]
SelectionOf(f) ==
    LET Chosen(i) == Bit(f.selected_mask, i)
        pos == SelectSeq([k \in 1 .. f.idx |-> k - 1], Chosen)
    IN  [k \in 1 .. Len(pos) |-> At(order_by_value, pos[k])]

\* line 122: done searching
IsTerminal(f) == f.idx >= Len(orders)

\* Variant: the bound read one place too far, leaving out the order at idx
IsPruned_OffByOne(f, best) ==
    f.curr_payout + At(suffix_payout, Min2(f.idx + 1, Len(orders))) <= best

\* line 126: even taking everything remaining cannot beat best
IsPruned(f, best) == f.curr_payout + At(suffix_payout, f.idx) <= best

\* Variant: the eligible set tested at the search position, not the order index
IsEligible_ByPosition(f) == Bit(f.valid_orders, f.idx)

\* Variant: the eligible set not consulted
IsEligible_Always(f) == TRUE

\* line 132: the order's bit is set in the eligible set
IsEligible(f) == Bit(f.valid_orders, At(order_by_value, f.idx))

\* Variant: the volume total not compared
Fits_WeightOnly(new_weight, new_volume) == new_weight <= truck.max_weight_lbs

\* Variant: the weight total not compared
Fits_VolumeOnly(new_weight, new_volume) == new_volume <= truck.max_volume_cuft

\* line 136: both totals stay within the truck's capacity
Fits(new_weight, new_volume) ==
    new_weight <= truck.max_weight_lbs /\ new_volume <= truck.max_volume_cuft

\* lines 132-136: option 1 is taken
CanInclude(f) ==
    LET order_idx == At(order_by_value, f.idx)
    IN  /\ IsEligible(f)
        /\ Fits(f.curr_weight + At(orders, order_idx).weight_lbs,
                f.curr_volume + At(orders, order_idx).volume_cuft)

\* Variant: the eligible set handed on without the chosen order's row
IncludeChild_NoNarrowing(f) ==
    LET order_idx == At(order_by_value, f.idx)
    IN  [idx |-> f.idx + 1,
         selected_mask |-> SetBit(f.selected_mask, f.idx),
         curr_payout |-> f.curr_payout + At(orders, order_idx).payout_cents,
         curr_weight |-> f.curr_weight + At(orders, order_idx).weight_lbs,
         curr_volume |-> f.curr_volume + At(orders, order_idx).volume_cuft,
         valid_orders |-> f.valid_orders,
         at |-> "entry"]

\* lines 138-141: the frame of the include call
IncludeChild(f) ==
    LET order_idx == At(order_by_value, f.idx)
    IN  [idx |-> f.idx + 1,
         selected_mask |-> SetBit(f.selected_mask, f.idx),
         curr_payout |-> f.curr_payout + At(orders, order_idx).payout_cents,
         curr_weight |-> f.curr_weight + At(orders, order_idx).weight_lbs,
         curr_volume |-> f.curr_volume + At(orders, order_idx).volume_cuft,
         valid_orders |-> BitAnd(f.valid_orders, At(compat_masks, order_idx)),
         at |-> "entry"]

\* Variant: the skip call passes idx + 2
ExcludeChild_SkipTwo(f) ==
    [idx |-> f.idx + 2,
     selected_mask |-> f.selected_mask,
     curr_payout |-> f.curr_payout,
     curr_weight |-> f.curr_weight,
     curr_volume |-> f.curr_volume,
     valid_orders |-> f.valid_orders,
     at |-> "entry"]

\* lines 144-145: the frame of the skip call
ExcludeChild(f) ==
    [idx |-> f.idx + 1,
     selected_mask |-> f.selected_mask,
     curr_payout |-> f.curr_payout,
     curr_weight |-> f.curr_weight,
     curr_volume |-> f.curr_volume,
     valid_orders |-> f.valid_orders,
     at |-> "entry"]

\* lines 148-149: search(0, 0, 0, 0, 0, all_orders_valid)
RootFrame(n) ==
    [idx |-> 0, selected_mask |-> 0, curr_payout |-> 0, curr_weight |-> 0,
     curr_volume |-> 0, valid_orders |-> Pow2(n) - 1, at |-> "entry"]

RECURSIVE Unwind(_)
\* The top frame returns. Its caller resumes after the call it was in: after
\* the include call it makes the skip call, after the skip call it returns too.
Unwind(st) ==
    IF Len(st) <= 1 THEN <<>>
    ELSE LET rest == SubSeq(st, 1, Len(st) - 1)
             parent == rest[Len(rest)]
         IN  IF parent.at = "include"
             THEN [rest EXCEPT ![Len(rest)].at = "exclude"] \o <<ExcludeChild(parent)>>
             ELSE Unwind(rest)

\* The call stack once the top frame, not returning at once, makes its first call.
Descend(st) ==
    LET f == st[Len(st)]
    IN  IF CanInclude(f)
        THEN [st EXCEPT ![Len(st)].at = "include"] \o <<IncludeChild(f)>>
        ELSE [st EXCEPT ![Len(st)].at = "exclude"] \o <<ExcludeChild(f)>>

----------------------------------------------------------------------------
(* Result assembler *)

\* round(total / capacity * 100, 2), in hundredths of a percent: the nearest
\* integer to total * 10000 / capacity, a tie going to the even one.
RoundedPercent(total, capacity) ==
    LET num == total * 10000
        q == num \div capacity
        r == num % capacity
    IN  IF 2 * r > capacity \/ (2 * r = capacity /\ q % 2 = 1) THEN q + 1 ELSE q

\* lines 170-175: 0.0 unless the capacity is positive
Utilization(total, capacity) ==
    IF capacity > 0 THEN RoundedPercent(total, capacity) ELSE 0

RECURSIVE SumAt(_, _)
\* sum(values[i] for i in selection)
SumAt(values, selection) ==
    IF selection = <<>> THEN 0
    ELSE At(values, Head(selection)) + SumAt(values, Tail(selection))

\* lines 166-185: the dict optimize_load returns, from optimize's tuple
optimize_load(t, selected_ids, total_payout, total_weight, total_volume) ==
    [truck_id |-> t.id,
     selected_order_ids |-> selected_ids,
     total_payout_cents |-> total_payout,
     total_weight_lbs |-> total_weight,
     total_volume_cuft |-> total_volume,
     utilization_weight_percent |-> Utilization(total_weight, t.max_weight_lbs),
     utilization_volume_percent |-> Utilization(total_volume, t.max_volume_cuft)]

\* lines 152-156: optimize's return value after the search, handed to optimize_load
BuildResult(t, os, best, selection) ==
    optimize_load(t,
                  [k \in 1 .. Len(selection) |-> At(os, selection[k]).id],
                  best,
                  SumAt(Weights(os), selection),
                  SumAt(Volumes(os), selection))

----------------------------------------------------------------------------
(* Inputs: the Truck and Order values of app/models.py *)

Cargo(p, w, v, o, d, pick, deliv, haz) ==
    [payout_cents |-> p, weight_lbs |-> w, volume_cuft |-> v, origin |-> o,
     destination |-> d, pickup_date |-> pick, delivery_date |-> deliv,
     is_hazmat |-> haz]

LA == <<"L", "A">>

LAPadded == <<" ", "l", "a", " ">>

NY == <<"N", "Y">>

TX == <<"T", "X">>

TXLower == <<"t", "x">>

\* The orders a request is made of. Each satisfies the Order validators
\* (payout >= 0, weight > 0, volume > 0, delivery >= pickup). Between them
\* they show: routes equal only after strip and lower, windows that touch
\* on one day, windows that are disjoint, a chain a-b-c where a and c are
\* not compatible, a hazmat order, a different origin, a different
\* destination, a zero payout, equal payouts, unequal weights and volumes.
OrderPool ==
    { Cargo(3, 2, 2, LA, TX, 1, 2, FALSE),
      Cargo(2, 1, 1, LAPadded, TXLower, 2, 3, FALSE),
      Cargo(2, 1, 1, LA, TX, 3, 3, FALSE),
      Cargo(3, 1, 1, LA, TX, 1, 3, TRUE),
      Cargo(1, 2, 1, NY, TX, 1, 3, FALSE),
      Cargo(2, 1, 1, LA, NY, 1, 3, FALSE),
      Cargo(0, 1, 1, LA, TX, 1, 3, FALSE) }

OrderFields ==
    {"id", "payout_cents", "weight_lbs", "volume_cuft", "origin", "destination",
     "pickup_date", "delivery_date", "is_hazmat"}

\* The order list of a request: the id of an order is its place in the list.
WithIds(cs) ==
    [k \in 1 .. Len(cs) |->
        [fld \in OrderFields |-> IF fld = "id" THEN k ELSE cs[k][fld]]]

WithoutId(o) == [fld \in OrderFields \ {"id"} |-> o[fld]]

OrderLists == UNION {[1 .. n -> OrderPool] : n \in 0 .. MaxOrders}

\* Truck: id non-empty, both capacities > 0
Trucks ==
    [id : {"truck-1"}, max_weight_lbs : 1 .. MaxCapacity,
     max_volume_cuft : 1 .. MaxCapacity]

\* Capacities of a truck that reaches the core unvalidated: negative, zero,
\* or just enough for the lightest and smallest order
UncheckedCapacities == -1 .. 1

UncheckedTrucks ==
    [id : {"truck-1"}, max_weight_lbs : UncheckedCapacities,
     max_volume_cuft : UncheckedCapacities]

NoFrame ==
    [idx |-> 0, selected_mask |-> 0, curr_payout |-> 0, curr_weight |-> 0,
     curr_volume |-> 0, valid_orders |-> 0, at |-> "entry", outcome |-> "none",
     best_before |-> 0]

NoResult == optimize_load([id |-> "", max_weight_lbs |-> 0, max_volume_cuft |-> 0],
                          <<>>, 0, 0, 0)

----------------------------------------------------------------------------
(* State machine *)

\* LoadOptimizer.__init__: the optimizer holds the truck and the orders
Constructed(t, os) ==
    /\ truck = t
    /\ orders = os
    /\ pc = "init"
    /\ compat_masks = <<>>
    /\ order_by_value = <<>>
    /\ suffix_payout = <<>>
    /\ stack = <<>>
    /\ best_payout = 0
    /\ best_selection = <<>>
    /\ last = NoFrame
    /\ result = NoResult

Init ==
    /\ \E t \in Trucks, cs \in OrderLists : Constructed(t, WithIds(cs))
    /\ prev_payout = -1
    /\ added = -1

InitUnchecked ==
    /\ \E t \in UncheckedTrucks, cs \in OrderLists : Constructed(t, WithIds(cs))
    /\ prev_payout = -1
    /\ added = -1

\* lines 85-86 and optimize_load: no orders, the result is empty
ReturnEmpty ==
    /\ pc = "init"
    /\ Len(orders) = 0
    /\ result' = optimize_load(truck, <<>>, 0, 0, 0)
    /\ pc' = "done"
    /\ UNCHANGED <<truck, orders, tables, stack, best_payout, best_selection,
                   last, prev_payout, added>>

\* lines 88-109, 148-149: precompute, reset the incumbent, call search at the root
StartSearch ==
    /\ pc = "init"
    /\ Len(orders) # 0
    /\ compat_masks' = _build_compatibility_masks(orders)
    /\ order_by_value' = SortByValue(Payouts(orders))
    /\ suffix_payout' = SuffixSums(Payouts(orders), order_by_value')
    /\ best_payout' = 0
    /\ best_selection' = <<>>
    /\ stack' = <<RootFrame(Len(orders))>>
    /\ pc' = "search"
    /\ UNCHANGED <<truck, orders, last, result, prev_payout, added>>

\* lines 111-145: entry to search for the frame on top of the call stack, up
\* to the next call of search (or to the return of the root call)
Search ==
    /\ pc = "search"
    /\ stack # <<>>
    /\ LET f == stack[Len(stack)]
           improves == IncumbentImproves(f, best_payout)
           best == IF improves THEN f.curr_payout ELSE best_payout
           outcome == IF IsTerminal(f) THEN "terminal"
                      ELSE IF IsPruned(f, best) THEN "pruned"
                      ELSE "branched"
       IN  /\ best_payout' = best
           /\ best_selection' =
                 IF improves THEN SelectionOf(f) ELSE best_selection
           /\ stack' = IF outcome = "branched" THEN Descend(stack)
                       ELSE Unwind(stack)
           /\ last' = [fld \in DOMAIN NoFrame |->
                         IF fld = "outcome" THEN outcome
                         ELSE IF fld = "best_before" THEN best_payout
                         ELSE f[fld]]
    /\ UNCHANGED <<truck, orders, tables, pc, result, prev_payout, added>>

\* lines 151-156 and optimize_load: the root call has returned
ReturnResult ==
    /\ pc = "search"
    /\ stack = <<>>
    /\ result' = BuildResult(truck, orders, best_payout, best_selection)
    /\ pc' = "done"
    /\ UNCHANGED <<truck, orders, tables, stack, best_payout, best_selection,
                   last, prev_payout, added>>

\* d is strictly dominated by e in the list os: lower payout, no lighter, no
\* smaller, and compatible with no other order that e is incompatible with
Dominates(os, e, d) ==
    /\ os[d].payout_cents < os[e].payout_cents
    /\ os[d].weight_lbs >= os[e].weight_lbs
    /\ os[d].volume_cuft >= os[e].volume_cuft
    /\ \A x \in (1 .. Len(os)) \ {d, e} :
          can_combine(os[d], os[x]) => can_combine(os[e], os[x])

StrictlyDominated(os, d) == \E e \in (1 .. Len(os)) \ {d} : Dominates(os, e, d)

InsertAt(cs, k, c) == SubSeq(cs, 1, k - 1) \o <<c>> \o SubSeq(cs, k, Len(cs))

\* A second request for the same truck: the first request's orders and one
\* more order, strictly dominated, at any place in the list
OptimizeExtended ==
    /\ pc = "done"
    /\ prev_payout = -1
    /\ Len(orders) < MaxOrders
    /\ \E c \in OrderPool, k \in 1 .. Len(orders) + 1 :
          LET os == WithIds(InsertAt([j \in 1 .. Len(orders) |-> WithoutId(orders[j])],
                                     k, c))
          IN  /\ StrictlyDominated(os, k)
              /\ orders' = os
              /\ added' = k
    /\ prev_payout' = result.total_payout_cents
    /\ pc' = "init"
    /\ compat_masks' = <<>>
    /\ order_by_value' = <<>>
    /\ suffix_payout' = <<>>
    /\ stack' = <<>>
    /\ best_payout' = 0
    /\ best_selection' = <<>>
    /\ last' = NoFrame
    /\ result' = NoResult
    /\ UNCHANGED truck

Next ==
    \/ ReturnEmpty
    \/ StartSearch
    \/ Search
    \/ ReturnResult
    \/ OptimizeExtended

Spec == Init /\ [][Next]_vars

SpecUnchecked == InitUnchecked /\ [][Next]_vars

\* One call of optimize_load
Run ==
    \/ ReturnEmpty
    \/ StartSearch
    \/ Search
    \/ ReturnResult

\* One call of optimize_load, run to completion on its own thread: nothing
\* suspends it, so a step of it that can be taken is taken.
SpecFair == Init /\ [][Run]_vars /\ WF_vars(Run)

----------------------------------------------------------------------------
(* What the properties speak of: subsets of the request's orders, as sets   *)
(* of places 1 .. n in the order list                                       *)

RECURSIVE SumOver(_, _)
SumOver(S, fld) ==
    IF S = {} THEN 0
    ELSE LET k == CHOOSE x \in S : TRUE
         IN  orders[k][fld] + SumOver(S \ {k}, fld)

\* Trim and case-fold
Normalised(str) == Lower(Strip(str))

SameRoute(a, b) ==
    /\ Normalised(a.origin) = Normalised(b.origin)
    /\ Normalised(a.destination) = Normalised(b.destination)

\* The closed windows [pickup, delivery] share a day
WindowsOverlap(a, b) ==
    \E day \in a.pickup_date .. a.delivery_date :
        day \in b.pickup_date .. b.delivery_date

SameHazmat(a, b) == a.is_hazmat = b.is_hazmat

Compatible(a, b) == SameRoute(a, b) /\ WindowsOverlap(a, b) /\ SameHazmat(a, b)

PairwiseCompatible(S) ==
    \A i \in S, j \in S : i # j => Compatible(orders[i], orders[j])

WithinCapacity(S) ==
    /\ SumOver(S, "weight_lbs") <= truck.max_weight_lbs
    /\ SumOver(S, "volume_cuft") <= truck.max_volume_cuft

Loadable(S) == WithinCapacity(S) /\ PairwiseCompatible(S)

AllOrders == 1 .. Len(orders)

\* The places of the orders the result names (an id is a place in the list)
Selected == {result.selected_order_ids[k] : k \in 1 .. Len(result.selected_order_ids)}

FitsAlone(k) == WithinCapacity({k})

----------------------------------------------------------------------------
(* C1 *)

\* C1: under the input contract, the total payout optimize returns is the
\* maximum total payout over all subsets of the orders that are within both
\* capacities and pairwise compatible: some such subset has that payout and
\* none has more.
C1_Optimality ==
    pc = "done" =>
        /\ \E S \in SUBSET AllOrders :
              Loadable(S) /\ SumOver(S, "payout_cents") = result.total_payout_cents
        /\ \A S \in SUBSET AllOrders :
              Loadable(S) => SumOver(S, "payout_cents") <= result.total_payout_cents

\* The highest-paying order fits alone and is left out of a two-order optimum.
C1_Witness ==
    /\ pc = "done"
    /\ Len(orders) = 3
    /\ Cardinality(Selected) = 2
    /\ \E k \in AllOrders \ Selected :
          /\ FitsAlone(k)
          /\ \A j \in AllOrders : orders[j].payout_cents <= orders[k].payout_cents

----------------------------------------------------------------------------
(* C2 *)

\* C2: the selection optimize_load returns has a total weight within the
\* truck's maximum weight and a total volume within its maximum volume.
C2_Feasibility ==
    pc = "done" =>
        /\ result.total_weight_lbs <= truck.max_weight_lbs
        /\ result.total_volume_cuft <= truck.max_volume_cuft
        /\ WithinCapacity(Selected)

\* A returned load that fills the truck's volume while an order that is
\* compatible with all of it, and light enough, stays behind.
C2_Witness ==
    /\ pc = "done"
    /\ Selected # {}
    /\ result.total_volume_cuft = truck.max_volume_cuft
    /\ \E k \in AllOrders \ Selected :
          /\ PairwiseCompatible(Selected \cup {k})
          /\ result.total_weight_lbs + orders[k].weight_lbs <= truck.max_weight_lbs

----------------------------------------------------------------------------
(* C3 *)

\* C3: every two distinct orders of the returned selection have the same
\* route (after trim and case-fold), overlapping closed windows and equal
\* hazmat flags.
C3_PairwiseCompatible ==
    pc = "done" =>
        /\ Cardinality(Selected) = Len(result.selected_order_ids)
        /\ PairwiseCompatible(Selected)

\* Two selected orders whose origins differ as written, and an order left
\* out that is incompatible with one of them but not with the other.
C3_Witness ==
    /\ pc = "done"
    /\ \E i \in Selected, j \in Selected :
          /\ orders[i].origin # orders[j].origin
          /\ \E k \in AllOrders \ Selected :
                /\ ~Compatible(orders[k], orders[i])
                /\ Compatible(orders[k], orders[j])

----------------------------------------------------------------------------
(* C4 *)

AllFitTogether ==
    /\ Len(orders) > 0
    /\ PairwiseCompatible(AllOrders)
    /\ WithinCapacity(AllOrders)

\* C4 as stated: a non-empty list of pairwise compatible orders that fit
\* the truck together is selected whole, with totals summed over all orders.
C4_AsStated ==
    (pc = "done" /\ AllFitTogether) =>
        /\ Selected = AllOrders
        /\ result.total_payout_cents = SumOver(AllOrders, "payout_cents")
        /\ result.total_weight_lbs = SumOver(AllOrders, "weight_lbs")
        /\ result.total_volume_cuft = SumOver(AllOrders, "volume_cuft")

Paying == {k \in AllOrders : orders[k].payout_cents > 0}

\* C4 amended: of a non-empty list of pairwise compatible orders that fit
\* the truck together, exactly the orders with a payout above zero are
\* selected; the payout is the sum over all orders, the weight and volume
\* are the sums over the selected ones.
C4_PayingOrdersSelected ==
    (pc = "done" /\ AllFitTogether) =>
        /\ Selected = Paying
        /\ Len(result.selected_order_ids) = Cardinality(Paying)
        /\ result.total_payout_cents = SumOver(AllOrders, "payout_cents")
        /\ result.total_weight_lbs = SumOver(Paying, "weight_lbs")
        /\ result.total_volume_cuft = SumOver(Paying, "volume_cuft")

\* Three orders that fit together, one of them with payout 0 and not last.
C4_Witness ==
    /\ pc = "done"
    /\ AllFitTogether
    /\ Len(orders) = 3
    /\ Cardinality(Paying) = 2
    /\ orders[3].payout_cents > 0

----------------------------------------------------------------------------
(* C5 *)

TwoRivals ==
    /\ Len(orders) = 2
    /\ orders[1].payout_cents # orders[2].payout_cents
    /\ FitsAlone(1)
    /\ FitsAlone(2)
    /\ ~Compatible(orders[1], orders[2])

HigherPaid == IF orders[1].payout_cents > orders[2].payout_cents THEN 1 ELSE 2

\* C5: of two incompatible orders with different payouts that each fit the
\* truck alone, exactly the higher-paid one is returned, with its payout,
\* whichever comes first in the input.
C5_HigherPaidRival ==
    (pc = "done" /\ TwoRivals) =>
        /\ result.selected_order_ids = <<HigherPaid>>
        /\ result.total_payout_cents = orders[HigherPaid].payout_cents

\* The higher-paid order comes second, the two would fit the truck
\* together, and only the time windows keep them apart.
C5_Witness ==
    /\ pc = "done"
    /\ TwoRivals
    /\ HigherPaid = 2
    /\ WithinCapacity({1, 2})
    /\ SameRoute(orders[1], orders[2])
    /\ SameHazmat(orders[1], orders[2])
    /\ result.selected_order_ids = <<2>>

----------------------------------------------------------------------------
(* C6 *)

NothingFits == \A k \in AllOrders : ~FitsAlone(k)

\* C6: when no order fits the truck alone (no orders at all, or each too
\* heavy or too large, as with a capacity of zero or below), the result is
\* an empty selection, totals of 0 and utilizations of 0.
C6_NothingFits ==
    (pc = "done" /\ NothingFits) =>
        /\ result.selected_order_ids = <<>>
        /\ result.total_payout_cents = 0
        /\ result.total_weight_lbs = 0
        /\ result.total_volume_cuft = 0
        /\ result.utilization_weight_percent = 0
        /\ result.utilization_volume_percent = 0

\* Three paying orders, a truck with a negative volume capacity and room
\* for the weight of each.
C6_Witness ==
    /\ pc = "done"
    /\ NothingFits
    /\ Len(orders) = 3
    /\ truck.max_volume_cuft < 0
    /\ \A k \in AllOrders :
          orders[k].payout_cents > 0 /\ orders[k].weight_lbs <= truck.max_weight_lbs

----------------------------------------------------------------------------
(* C7 *)

\* C7: for the same truck, the payout returned for a list extended by one
\* strictly dominated order, wherever it is inserted, is at least the
\* payout returned for the list without it.
C7_DominatedOrderKeepsPayout ==
    (pc = "done" /\ prev_payout >= 0 /\ StrictlyDominated(orders, added)) =>
        result.total_payout_cents >= prev_payout

\* A dominated order inserted at the head of a list of two, the load
\* without it paying and not the whole list.
C7_Witness ==
    /\ pc = "done"
    /\ prev_payout > 0
    /\ added = 1
    /\ Len(orders) = 3
    /\ StrictlyDominated(orders, added)
    /\ Cardinality(Selected) = 1
    /\ result.total_payout_cents = prev_payout

----------------------------------------------------------------------------
(* C8 *)

\* The places in the order list of the search positions in P
PlacesAt(P) == {At(order_by_value, i) + 1 : i \in P}

\* The search positions a mask holds, among the first idx
PositionsIn(mask, idx) == {i \in 0 .. idx - 1 : Bit(mask, i)}

\* C8: when search returns early at a node because curr_payout +
\* suffix_payout[idx] <= best_payout, no extension of the node's selection
\* by orders at positions idx .. N-1 that is within capacity and pairwise
\* compatible pays strictly more than the best_payout held then.
C8_PruningSound ==
    (pc = "search" /\ last.outcome = "pruned") =>
        \A T \in SUBSET (last.idx .. Len(orders) - 1) :
            LET S == PlacesAt(PositionsIn(last.selected_mask, last.idx) \cup T)
            IN  Loadable(S) => SumOver(S, "payout_cents") <= best_payout

\* A pruned node with a loadable, paying extension that ties the incumbent.
C8_Witness ==
    /\ pc = "search"
    /\ last.outcome = "pruned"
    /\ \E T \in SUBSET (last.idx .. Len(orders) - 1) :
          LET S == PlacesAt(PositionsIn(last.selected_mask, last.idx) \cup T)
          IN  /\ T # {}
              /\ Loadable(S)
              /\ SumOver(S, "payout_cents") = best_payout
              /\ SumOver(S, "payout_cents") > last.curr_payout

----------------------------------------------------------------------------
(* C9 *)

\* C9: during one optimize call best_payout never decreases from one search
\* step to the next, and after the entry to a node best_payout is at least
\* that node's curr_payout.
C9_IncumbentMonotone ==
    [][(pc = "search" /\ pc' = "search") =>
           /\ best_payout' >= best_payout
           /\ best_payout' >= last'.curr_payout]_vars

\* The incumbent was raised on entry to a node that is not at depth N.
C9_Witness ==
    /\ pc = "search"
    /\ last.outcome = "branched"
    /\ last.curr_payout > last.best_before
    /\ last.best_before > 0
    /\ best_payout = last.curr_payout

----------------------------------------------------------------------------
(* C10 *)

RECURSIVE RowsMeet(_, _)
\* The intersection of the compatibility rows of the orders at the search
\* positions in P, all orders when P is empty
RowsMeet(P, n) ==
    IF P = {} THEN Pow2(n) - 1
    ELSE LET i == CHOOSE x \in P : TRUE
         IN  BitAnd(At(compat_masks, At(order_by_value, i)), RowsMeet(P \ {i}, n))

SubMask(a, b) == BitAnd(a, b) = a

\* C10: down the call stack, a child's valid_orders is a subset of its
\* parent's: the same after a skip, the parent's intersected with the chosen
\* order's compatibility row after an include, and an order is included
\* only if its bit is set in the parent's set; so at every node
\* valid_orders is the intersection of the rows of the orders chosen so far.
C10_EligibleSetShrinks ==
    pc = "search" =>
        /\ \A k \in 1 .. Len(stack) - 1 :
              LET parent == stack[k]
                  child == stack[k + 1]
                  order_idx == At(order_by_value, parent.idx)
              IN  /\ SubMask(child.valid_orders, parent.valid_orders)
                  /\ parent.at = "exclude" => child.valid_orders = parent.valid_orders
                  /\ parent.at = "include" =>
                        /\ Bit(parent.valid_orders, order_idx)
                        /\ Bit(child.selected_mask, parent.idx)
                        /\ child.valid_orders =
                              BitAnd(parent.valid_orders, At(compat_masks, order_idx))
        /\ \A k \in 1 .. Len(stack) :
              stack[k].valid_orders =
                  RowsMeet(PositionsIn(stack[k].selected_mask, stack[k].idx),
                           Len(orders))

\* A node two includes deep whose eligible set is neither all the orders
\* nor the row of the order chosen last.
C10_Witness ==
    /\ pc = "search"
    /\ Len(stack) = 3
    /\ stack[1].at = "include"
    /\ stack[2].at = "include"
    /\ stack[2].valid_orders # stack[1].valid_orders
    /\ stack[3].valid_orders # At(compat_masks, At(order_by_value, 1))

----------------------------------------------------------------------------
(* C11 *)

RECURSIVE SumListed(_, _)
\* The sum of a field over the orders a list of places names, one by one
SumListed(places, fld) ==
    IF places = <<>> THEN 0
    ELSE orders[Head(places)][fld] + SumListed(Tail(places), fld)

\* The places in the order list of the incumbent's order indices
BestPlaces == [k \in 1 .. Len(best_selection) |-> best_selection[k] + 1]

\* C11: the reported totals are those of the returned selection: the payout
\* (the incumbent best_payout), the weight and the volume are the sums over
\* the selected orders; and at every search step best_payout is the summed
\* payout of best_selection.
C11_TotalsMatchSelection ==
    /\ pc \in {"search", "done"} =>
          best_payout = SumListed(BestPlaces, "payout_cents")
    /\ pc = "done" =>
          /\ result.total_payout_cents =
                SumListed(result.selected_order_ids, "payout_cents")
          /\ result.total_weight_lbs =
                SumListed(result.selected_order_ids, "weight_lbs")
          /\ result.total_volume_cuft =
                SumListed(result.selected_order_ids, "volume_cuft")

\* In mid-search the incumbent holds two paying orders of different payout,
\* the later one of the input first.
C11_Witness ==
    /\ pc = "search"
    /\ stack # <<>>
    /\ Len(best_selection) = 2
    /\ best_selection[1] > best_selection[2]
    /\ At(orders, best_selection[1]).payout_cents
          > At(orders, best_selection[2]).payout_cents
    /\ At(orders, best_selection[2]).payout_cents > 0

----------------------------------------------------------------------------
(* C12 *)

\* Every frame of the call stack was called with its caller's index plus 1,
\* the root with 0; no index exceeds N; at most N + 1 frames are live.
IndexAdvancesByOne ==
    pc = "search" =>
        /\ Len(stack) <= Len(orders) + 1
        /\ \A k \in 1 .. Len(stack) :
              /\ stack[k].idx <= Len(orders)
              /\ stack[k].idx = IF k = 1 THEN 0 ELSE stack[k - 1].idx + 1

\* C12: for every order list of N orders the search terminates and optimize
\* returns a result; every recursive call raises the decision index by
\* exactly 1, the index never exceeds N and the recursion is never deeper
\* than N + 1 frames.
C12_SearchTerminates ==
    /\ []IndexAdvancesByOne
    /\ <>(pc = "done")

\* The recursion at its deepest: N + 1 frames, the top one at index N, for
\* a list of the longest kind.
C12_Witness ==
    /\ pc = "search"
    /\ Len(orders) = MaxOrders
    /\ Len(stack) = Len(orders) + 1
    /\ stack[Len(stack)].idx = Len(orders)

----------------------------------------------------------------------------
(* C13 *)

\* The id listed at k comes before the id listed at k + 1 in the search
\* order: a higher payout, or the same payout and an earlier input place
ListedInSearchOrder(ids) ==
    \A k \in 1 .. Len(ids) - 1 :
        LET a == orders[ids[k]]
            b == orders[ids[k + 1]]
        IN  \/ a.payout_cents > b.payout_cents
            \/ a.payout_cents = b.payout_cents /\ ids[k] < ids[k + 1]

\* C13: selected_order_ids is listed in the search order, not by input
\* position: payouts do not increase along it, and orders of equal payout
\* keep their input order.
C13_IdsInSearchOrder ==
    pc = "done" => ListedInSearchOrder(result.selected_order_ids)

\* Two orders returned, the later one of the input first: the list is not
\* in ascending input position.
C13_Witness ==
    /\ pc = "done"
    /\ Len(orders) = 3
    /\ Len(result.selected_order_ids) = 2
    /\ result.selected_order_ids[1] > result.selected_order_ids[2]
    /\ ListedInSearchOrder(result.selected_order_ids)

====
